---- MODULE Spec2Model ----
(***************************************************************************)
(* Mode / sequence state machine of the irrigation controller              *)
(* (raspberry-arrosage).  The three documents of the shared store (mode,   *)
(* status, settings), the eight relays and the wall clock are the state;   *)
(* every core operation (poll-loop tick, start_sequence, start_step,       *)
(* pause, resume, reset, manual, set_mode, POST /settings) is one action.  *)
(*                                                                         *)
(* A document is a function from field names to values; a key that is not  *)
(* in the store is the empty function Absent (get_json_from_redis returns  *)
(* None for it, and also when the read fails).                             *)
(***************************************************************************)
EXTENDS Integers, Sequences, FiniteSets, TLC

VARIABLES
    mode,       \* the 'mode' document
    status,     \* the 'status' document
    settings,   \* the 'settings' document
    relays,     \* the set of energized (open, GPIO.LOW) relays
    now,        \* int(time.time()), seconds since Monday 00:00:00 local time
    last        \* the operation that ran last, its argument and what it returned

vars == <<mode, status, settings, relays, now, last>>

-----------------------------------------------------------------------------
(* Bounds of the model *)

\* the clock runs from 0 to MaxTime
MaxTime == 2

\* the poll loop running alone is followed for MaxLoopTime seconds
MaxLoopTime == 26
\* the number of weeks the poll loop is followed over
MaxWeeks == 1

\* the poll loop running alone is followed until it called start_sequence
\* MaxCalls times
MaxCalls == 3

-----------------------------------------------------------------------------
(* Program constants *)

NumRelays == 8
LastRelay == 7
SecondsPerMinute == 60
MinutesPerHour == 60
HoursPerDay == 24
DaysPerWeek == 7

RelayIds == 0 .. (NumRelays - 1)

MODE_MANUAL == "manual"
MODE_AUTO == "auto"
MODE_SEMI_AUTO == "semi_auto"
MODE_PAUSE == "pause"
VALID_MODES == {MODE_MANUAL, MODE_AUTO, MODE_SEMI_AUTO, MODE_PAUSE}

\* Python's None where a mode string is expected
NoneMode == "None"

Absent == [k \in {} |-> 0]

Has(doc, field) == field \in DOMAIN doc

\* what get_json_from_redis returns for a key whose data is not JSON: the raw
\* string, which has none of the fields and none of the methods of a document
RawData == [raw |-> TRUE]

-----------------------------------------------------------------------------
(* Faults of the environment.  A fault names the I/O call of an operation  *)
(* that fails (at: its ordinal among the operation's store and driver      *)
(* calls, 0 for none) and, when that call is close_all_relays, the relay   *)
(* at which its loop raises (the relays before j are already closed).      *)

NoFault == [at |-> 0, j |-> 0]

\* the fault as seen by a callee that starts after n calls of its caller
After(f, n) == [f EXCEPT !.at = IF f.at > n THEN f.at - n ELSE -1]

-----------------------------------------------------------------------------
(* The store: data/redis.py *)

\* get_json_from_redis: the document, None when the key is missing or on error
get_json_from_redis(doc, failed) == IF failed THEN Absent ELSE doc

\* set_json_to_redis: [doc: what the key holds afterwards, ok: what it returns]
set_json_to_redis(old, data, failed) ==
    IF failed THEN [doc |-> old, ok |-> FALSE] ELSE [doc |-> data, ok |-> TRUE]

-----------------------------------------------------------------------------
(* The relays: hardware/relay/relays.py *)

\* a close_all_relays whose loop stops one relay short
close_all_relays_but_last(r, failed, j) ==
    IF failed THEN [relays |-> r \ (0 .. (j - 1)), raised |-> TRUE]
    ELSE [relays |-> r \ (0 .. (LastRelay - 1)), raised |-> FALSE]

\* an open_relay that drives the pin of the next relay
open_relay_next_pin(relay_number, r, failed) ==
    IF failed THEN [relays |-> r, raised |-> TRUE]
    ELSE [relays |-> r \cup {(relay_number + 1) % NumRelays}, raised |-> FALSE]

\* close_all_relays: closes relay 0, 1, ... in turn; a driver error at relay j
\* leaves the relays from j on as they were and raises
close_all_relays(r, failed, j) ==
    IF failed THEN [relays |-> r \ (0 .. (j - 1)), raised |-> TRUE]
    ELSE [relays |-> {}, raised |-> FALSE]

open_relay(relay_number, r, failed) ==
    IF failed THEN [relays |-> r, raised |-> TRUE]
    ELSE [relays |-> r \cup {relay_number}, raised |-> FALSE]

-----------------------------------------------------------------------------
(* The mode document: data/mode.py *)

get_mode(m, failed) ==
    LET parsed_mode == get_json_from_redis(m, failed) IN
    IF parsed_mode = Absent THEN NoneMode
    ELSE IF ~Has(parsed_mode, "current") THEN NoneMode
    ELSE IF parsed_mode.current \notin VALID_MODES THEN NoneMode
    ELSE parsed_mode.current

\* a set_mode that writes whatever it is given
set_mode_unvalidated(new_mode, m, f) ==
    LET w == set_json_to_redis(m, [current |-> new_mode], f.at = 1) IN
    IF ~w.ok THEN [mode |-> m, ok |-> FALSE]
    ELSE [mode |-> w.doc, ok |-> get_mode(w.doc, f.at = 2) = new_mode]

\* a set_mode that updates the current field of the stored document in place
set_mode_updates_field(new_mode, m, f) ==
    IF new_mode \notin VALID_MODES THEN [mode |-> m, ok |-> FALSE]
    ELSE
        LET w == set_json_to_redis(m, [current |-> new_mode] @@ m, f.at = 1) IN
        IF ~w.ok THEN [mode |-> m, ok |-> FALSE]
        ELSE [mode |-> w.doc, ok |-> get_mode(w.doc, f.at = 2) = new_mode]

\* a set_mode that records the mode it replaces
set_mode_records_previous(new_mode, m, f) ==
    IF new_mode \notin VALID_MODES THEN [mode |-> m, ok |-> FALSE]
    ELSE
        LET w == set_json_to_redis(m, [current |-> new_mode,
                                       previous_mode |-> get_mode(m, FALSE)], f.at = 1) IN
        IF ~w.ok THEN [mode |-> m, ok |-> FALSE]
        ELSE [mode |-> w.doc, ok |-> get_mode(w.doc, f.at = 2) = new_mode]

\* set_mode: calls 1 (write) and 2 (verification read)
set_mode(new_mode, m, f) ==
    IF new_mode \notin VALID_MODES THEN [mode |-> m, ok |-> FALSE]
    ELSE
        LET w == set_json_to_redis(m, [current |-> new_mode], f.at = 1) IN
        IF ~w.ok THEN [mode |-> m, ok |-> FALSE]
        ELSE [mode |-> w.doc, ok |-> get_mode(w.doc, f.at = 2) = new_mode]

\* a verification that does not read the document back
set_mode_verify_skipped(new_mode, m, failed) == TRUE

\* the second half of set_mode: verification = get_mode(), read when the
\* Mode document is m; the result of set_mode is verification == new_mode
set_mode_verify(new_mode, m, failed) == get_mode(m, failed) = new_mode

-----------------------------------------------------------------------------
(* The status document: data/status.py *)

clear_status(st, failed) ==
    IF failed THEN [status |-> st, ok |-> FALSE] ELSE [status |-> Absent, ok |-> TRUE]

\* a status document that carries a deadline whatever the duration
StatusData_always_deadline(relay_number, duration, t, t2) ==
    [opened_relay |-> relay_number, opened_at |-> t, should_close_at |-> t2 + duration]

\* the status document set_open_relay builds: opened_at is read from the clock
\* at t, should_close_at from a second reading of the clock, at t2
StatusData(relay_number, duration, t, t2) ==
    IF duration > 0
    THEN [opened_relay |-> relay_number, opened_at |-> t, should_close_at |-> t2 + duration]
    ELSE [opened_relay |-> relay_number, opened_at |-> t]

set_open_relay(relay_number, duration, st, t, t2, failed) ==
    IF relay_number < 0 \/ relay_number > LastRelay THEN [status |-> st, ok |-> FALSE]
    ELSE
        LET w == set_json_to_redis(st, StatusData(relay_number, duration, t, t2), failed) IN
        [status |-> w.doc, ok |-> w.ok]

get_status(st, failed) ==
    LET status_data == get_json_from_redis(st, failed) IN
    IF status_data = Absent THEN Absent
    ELSE IF Has(status_data, "opened_relay")
            /\ (status_data.opened_relay < 0 \/ status_data.opened_relay > LastRelay)
         THEN Absent
    ELSE IF Has(status_data, "opened_at") /\ status_data.opened_at < 0 THEN Absent
    ELSE status_data

-----------------------------------------------------------------------------
(* The sequence engine: loop/sequence.py *)

\* a start_step that checks only that the relay number is not negative
start_step_no_upper_bound(relay, r, st, se, t, t2, f) ==
    IF relay < 0 THEN [relays |-> r, status |-> st, ok |-> FALSE]
    ELSE
        LET c == close_all_relays(r, f.at = 1, f.j)
            o == open_relay(relay, c.relays, f.at = 2)
            s == get_json_from_redis(se, f.at = 3)
        IN
        IF c.raised THEN [relays |-> c.relays, status |-> st, ok |-> FALSE]
        ELSE IF o.raised \/ s = Absent \/ ~Has(s, "sequence")
             THEN [relays |-> o.relays, status |-> st, ok |-> FALSE]
        ELSE IF relay >= Len(s.sequence) THEN [relays |-> o.relays, status |-> st, ok |-> FALSE]
        ELSE
            LET w == set_open_relay(relay, s.sequence[relay + 1], st, t, t2, f.at = 4) IN
            [relays |-> o.relays, status |-> w.status, ok |-> w.ok]

\* start_step: calls 1 (close_all_relays), 2 (open_relay), 3 (settings read),
\* 4 (status write).  [relays, status: afterwards, ok: what it returns]
start_step(relay, r, st, se, t, t2, f) ==
    IF relay < 0 \/ relay > LastRelay THEN [relays |-> r, status |-> st, ok |-> FALSE]
    ELSE
        LET c == close_all_relays(r, f.at = 1, f.j) IN
        IF c.raised THEN [relays |-> c.relays, status |-> st, ok |-> FALSE]
        ELSE
            LET o == open_relay(relay, c.relays, f.at = 2) IN
            IF o.raised THEN [relays |-> o.relays, status |-> st, ok |-> FALSE]
            ELSE
                LET s == get_json_from_redis(se, f.at = 3) IN
                IF s = Absent THEN [relays |-> o.relays, status |-> st, ok |-> FALSE]
                \* settings['sequence'] raises KeyError, sequence[relay] IndexError
                ELSE IF ~Has(s, "sequence") THEN [relays |-> o.relays, status |-> st, ok |-> FALSE]
                ELSE IF relay >= Len(s.sequence) THEN [relays |-> o.relays, status |-> st, ok |-> FALSE]
                ELSE
                    LET w == set_open_relay(relay, s.sequence[relay + 1], st, t, t2, f.at = 4) IN
                    [relays |-> o.relays, status |-> w.status, ok |-> w.ok]

\* a start_sequence that does not delete the status first
start_sequence_keeps_status(r, st, se, t, t2, f) ==
    start_step(0, r, st, se, t, t2, After(f, 1))

\* start_sequence: call 1 (status delete), then start_step(0)
start_sequence(r, st, se, t, t2, f) ==
    LET c == clear_status(st, f.at = 1) IN
    IF ~c.ok THEN [relays |-> r, status |-> st, ok |-> FALSE]
    ELSE start_step(0, r, c.status, se, t, t2, After(f, 1))

\* a comparison that misses the second of the deadline itself
deadline_reached_strict(current_time, expected_finish_time) ==
    current_time > expected_finish_time

\* is_finished = current_time >= expected_finish_time
deadline_reached(current_time, expected_finish_time) ==
    current_time >= expected_finish_time

\* a check that takes a missing status for a finished step
is_current_step_finished_without_status(st, se, t, f) ==
    LET s == get_status(st, f.at = 1) IN
    IF s = Absent THEN TRUE
    ELSE IF ~Has(s, "should_close_at") THEN FALSE
    ELSE deadline_reached(t, s.should_close_at)

\* is_current_step_finished: calls 1 (status read), 2 (settings read)
is_current_step_finished(st, se, t, f) ==
    LET s == get_status(st, f.at = 1) IN
    IF s = Absent THEN FALSE
    ELSE IF ~Has(s, "opened_relay") \/ ~Has(s, "opened_at") THEN FALSE
    \* status['should_close_at'] raises KeyError, caught: False
    ELSE IF ~Has(s, "should_close_at") THEN FALSE
    ELSE
        LET g == get_json_from_redis(se, f.at = 2) IN
        IF g = Absent THEN FALSE
        ELSE IF ~Has(g, "sequence") THEN FALSE
        ELSE IF s.opened_relay < 0 \/ s.opened_relay >= Len(g.sequence) THEN FALSE
        ELSE deadline_reached(t, s.should_close_at)

-----------------------------------------------------------------------------
(* The wall clock as the poll loop reads it: loop/main.py *)

SecondsPerDay == SecondsPerMinute * MinutesPerHour * HoursPerDay

\* datetime.now().weekday(): 0 = Monday ... 6 = Sunday
weekday(t) == (t \div SecondsPerDay) % DaysPerWeek

Digit(d) ==
    CASE d = 0 -> "0" [] d = 1 -> "1" [] d = 2 -> "2" [] d = 3 -> "3" [] d = 4 -> "4"
      [] d = 5 -> "5" [] d = 6 -> "6" [] d = 7 -> "7" [] d = 8 -> "8" [] d = 9 -> "9"

TwoDigits(n) == <<Digit(n \div 10), Digit(n % 10)>>

\* datetime.now().strftime("%H:%M"); a string is the sequence of its characters
strftime_HM(t) ==
    LET h == (t % SecondsPerDay) \div (SecondsPerMinute * MinutesPerHour)
        m == (t \div SecondsPerMinute) % MinutesPerHour
    IN  TwoDigits(h) \o <<":">> \o TwoDigits(m)

-----------------------------------------------------------------------------
(* One iteration of the poll loop: loop/main.py *)

\* a step counter that skips a relay
next_relay_skips(opened_relay) == opened_relay + 2

\* next_relay = opened_relay + 1
next_relay(opened_relay) == opened_relay + 1

\* a loop that only stays idle in manual mode
tick_enters_unless_manual(current_mode) == current_mode # MODE_MANUAL

\* "if current_mode in [MODE_AUTO, MODE_SEMI_AUTO]"
tick_enters(current_mode) == current_mode \in {MODE_AUTO, MODE_SEMI_AUTO}

\* a schedule test that does not look at the day of the week
ScheduleMatches_any_day(se, t) ==
    /\ se # Absent
    /\ Has(se, "schedule") /\ Has(se, "start_at")
    /\ se.schedule # <<>> /\ se.start_at # <<>>
    /\ strftime_HM(t) = se.start_at

\* the schedule test of the idle branch, on the settings document as read
ScheduleMatches(se, t) ==
    /\ se # Absent
    /\ Has(se, "schedule") /\ Has(se, "start_at")
    /\ se.schedule # <<>> /\ se.start_at # <<>>
    /\ weekday(t) < Len(se.schedule)
    /\ se.schedule[weekday(t) + 1]
    /\ strftime_HM(t) = se.start_at

\* a poll loop that starts the sequence again once the last step is finished
main_iteration_restarts(m, r, st, se, t, t2, f) ==
    LET current_mode == get_mode(m, f.at = 1)
        idle == [relays |-> r, status |-> st, ok |-> TRUE, did |-> "noop"]
    IN
    IF current_mode \notin {MODE_AUTO, MODE_SEMI_AUTO} THEN idle
    ELSE
        LET s == get_status(st, f.at = 2) IN
        IF s # Absent THEN
            IF is_current_step_finished(st, se, t, After(f, 2)) /\ Has(s, "opened_relay")
            THEN IF s.opened_relay < LastRelay
                 THEN [did |-> "advance"] @@
                      start_step(next_relay(s.opened_relay), r, st, se, t, t2, After(f, 4))
                 ELSE [did |-> "trigger"] @@
                      start_sequence(r, st, se, t, t2, After(f, 4))
            ELSE idle
        ELSE
            IF ScheduleMatches(get_json_from_redis(se, f.at = 3), t)
            THEN [did |-> "trigger"] @@ start_sequence(r, st, se, t, t2, After(f, 3))
            ELSE idle

\* a poll loop that looks at the schedule before it looks at the status
main_iteration_schedule_first(m, r, st, se, t, t2, f) ==
    LET current_mode == get_mode(m, f.at = 1)
        idle == [relays |-> r, status |-> st, ok |-> TRUE, did |-> "noop"]
        s == get_status(st, f.at = 2)
    IN
    IF current_mode \notin {MODE_AUTO, MODE_SEMI_AUTO} THEN idle
    ELSE IF ScheduleMatches(get_json_from_redis(se, f.at = 3), t)
    THEN [did |-> "trigger"] @@ start_sequence(r, st, se, t, t2, After(f, 3))
    ELSE IF s # Absent /\ is_current_step_finished(st, se, t, After(f, 2))
            /\ Has(s, "opened_relay") /\ s.opened_relay < LastRelay
    THEN [did |-> "advance"] @@
         start_step(next_relay(s.opened_relay), r, st, se, t, t2, After(f, 4))
    ELSE idle

\* a poll loop that also runs in manual mode
main_iteration_in_manual(m, r, st, se, t, t2, f) ==
    LET current_mode == get_mode(m, f.at = 1)
        idle == [relays |-> r, status |-> st, ok |-> TRUE, did |-> "noop"]
        s == get_status(st, f.at = 2)
    IN
    IF current_mode \notin {MODE_AUTO, MODE_SEMI_AUTO, MODE_MANUAL} THEN idle
    ELSE IF s # Absent
    THEN IF is_current_step_finished(st, se, t, After(f, 2))
            /\ Has(s, "opened_relay") /\ s.opened_relay < LastRelay
         THEN [did |-> "advance"] @@
              start_step(next_relay(s.opened_relay), r, st, se, t, t2, After(f, 4))
         ELSE idle
    ELSE IF ScheduleMatches(get_json_from_redis(se, f.at = 3), t)
    THEN [did |-> "trigger"] @@ start_sequence(r, st, se, t, t2, After(f, 3))
    ELSE idle

\* a poll loop that stops advancing one step before the last
main_iteration_stops_early(m, r, st, se, t, t2, f) ==
    LET current_mode == get_mode(m, f.at = 1)
        idle == [relays |-> r, status |-> st, ok |-> TRUE, did |-> "noop"]
        s == get_status(st, f.at = 2)
    IN
    IF current_mode \notin {MODE_AUTO, MODE_SEMI_AUTO} THEN idle
    ELSE IF s # Absent
    THEN IF is_current_step_finished(st, se, t, After(f, 2))
            /\ Has(s, "opened_relay") /\ s.opened_relay < LastRelay - 1
         THEN [did |-> "advance"] @@
              start_step(next_relay(s.opened_relay), r, st, se, t, t2, After(f, 4))
         ELSE idle
    ELSE IF ScheduleMatches(get_json_from_redis(se, f.at = 3), t)
    THEN [did |-> "trigger"] @@ start_sequence(r, st, se, t, t2, After(f, 3))
    ELSE idle

\* calls 1 (mode read), 2 (status read), then either is_current_step_finished
\* (3, 4) and start_step (5..8), or the settings read (3) and start_sequence
\* (4..8).  did: what the iteration decided to do; "exit" when an exception
\* reaches main's handler and the process exits
main_iteration(m, r, st, se, t, t2, f) ==
    LET current_mode == get_mode(m, f.at = 1)
        idle == [relays |-> r, status |-> st, ok |-> TRUE, did |-> "noop"]
    IN
    IF current_mode \notin {MODE_AUTO, MODE_SEMI_AUTO} THEN idle
    ELSE
        LET s == get_status(st, f.at = 2) IN
        IF s # Absent THEN
            IF is_current_step_finished(st, se, t, After(f, 2))
               /\ Has(s, "opened_relay") /\ s.opened_relay < LastRelay
            THEN [did |-> "advance"] @@
                 start_step(next_relay(s.opened_relay), r, st, se, t, t2, After(f, 4))
            ELSE idle
        ELSE
            LET settings_read == get_json_from_redis(se, f.at = 3) IN
            \* settings.get(...) on raw data raises AttributeError, which only
            \* main's own "except Exception: sys.exit(1)" catches
            IF settings_read = RawData
            THEN [relays |-> r, status |-> st, ok |-> FALSE, did |-> "exit"]
            ELSE IF ScheduleMatches(settings_read, t)
            THEN [did |-> "trigger"] @@ start_sequence(r, st, se, t, t2, After(f, 3))
            ELSE idle

-----------------------------------------------------------------------------
(* The commands: loop/pause.py, commands/resume.py, reset.py, manual.py *)

\* a pause that does not look at the current mode first
pause_without_check(m, r, f) ==
    LET sm == set_mode(MODE_PAUSE, m, After(f, 1)) IN
    IF ~sm.ok THEN [mode |-> sm.mode, relays |-> r, ok |-> FALSE]
    ELSE
        LET c == close_all_relays(r, f.at = 4, f.j) IN
        [mode |-> sm.mode, relays |-> c.relays, ok |-> ~c.raised]

\* a pause that changes the mode and leaves the relays as they are
pause_keeps_relays(m, r, f) ==
    IF get_mode(m, f.at = 1) = MODE_PAUSE THEN [mode |-> m, relays |-> r, ok |-> TRUE]
    ELSE
        LET sm == set_mode(MODE_PAUSE, m, After(f, 1)) IN
        [mode |-> sm.mode, relays |-> r, ok |-> sm.ok]

\* a pause that closes the relays whatever set_mode returned
pause_ignores_set_mode(m, r, f) ==
    IF get_mode(m, f.at = 1) = MODE_PAUSE THEN [mode |-> m, relays |-> r, ok |-> TRUE]
    ELSE
        LET sm == set_mode(MODE_PAUSE, m, After(f, 1))
            c == close_all_relays(r, f.at = 4, f.j)
        IN  [mode |-> sm.mode, relays |-> c.relays, ok |-> ~c.raised]

\* pause: calls 1 (mode read), 2 and 3 (set_mode), 4 (close_all_relays)
pause(m, r, f) ==
    IF get_mode(m, f.at = 1) = MODE_PAUSE THEN [mode |-> m, relays |-> r, ok |-> TRUE]
    ELSE
        LET sm == set_mode(MODE_PAUSE, m, After(f, 1)) IN
        IF ~sm.ok THEN [mode |-> sm.mode, relays |-> r, ok |-> FALSE]
        ELSE
            LET c == close_all_relays(r, f.at = 4, f.j) IN
            [mode |-> sm.mode, relays |-> c.relays, ok |-> ~c.raised]

\* the status document resume writes back: should_close_at moved by delta_seconds
ShiftedStatus(s, delta_seconds) ==
    IF Has(s, "should_close_at")
    THEN [s EXCEPT !.should_close_at = s.should_close_at + delta_seconds]
    ELSE s

\* a resume that falls back to manual mode when previous_mode is missing
resume_defaults_previous(m, st, r, t, f) ==
    LET mode_data == get_json_from_redis(m, f.at = 1)
        failed == [mode |-> m, status |-> st, relays |-> r, ok |-> FALSE]
    IN
    IF mode_data = Absent THEN failed
    ELSE IF ~Has(mode_data, "paused_at") THEN failed
    ELSE
        LET previous_mode == IF Has(mode_data, "previous_mode")
                             THEN mode_data.previous_mode ELSE MODE_MANUAL
            s == get_status(st, f.at = 2)
        IN
        IF s = Absent THEN failed
        ELSE IF ~Has(s, "opened_relay") THEN failed
        ELSE
            LET w == set_json_to_redis(st, ShiftedStatus(s, t - mode_data.paused_at), f.at = 3) IN
            IF ~w.ok THEN failed
            ELSE
                LET o == open_relay(s.opened_relay, r, f.at = 4) IN
                IF o.raised THEN [mode |-> m, status |-> w.doc, relays |-> o.relays, ok |-> FALSE]
                ELSE
                    LET sm == set_mode(previous_mode, m, After(f, 4)) IN
                    [mode |-> sm.mode, status |-> w.doc, relays |-> o.relays, ok |-> sm.ok]

\* a resume that restores the mode before it looks at the status
resume_restores_mode_first(m, st, r, t, f) ==
    LET mode_data == get_json_from_redis(m, f.at = 1)
        failed == [mode |-> m, status |-> st, relays |-> r, ok |-> FALSE]
    IN
    IF mode_data = Absent THEN failed
    ELSE IF ~Has(mode_data, "paused_at") THEN failed
    ELSE IF ~Has(mode_data, "previous_mode") THEN failed
    ELSE
        LET sm == set_mode(mode_data.previous_mode, m, After(f, 4))
            s == get_status(st, f.at = 2)
        IN
        IF s = Absent \/ ~Has(s, "opened_relay")
        THEN [mode |-> sm.mode, status |-> st, relays |-> r, ok |-> FALSE]
        ELSE
            LET w == set_json_to_redis(st, ShiftedStatus(s, t - mode_data.paused_at), f.at = 3) IN
            IF ~w.ok THEN [mode |-> sm.mode, status |-> st, relays |-> r, ok |-> FALSE]
            ELSE
                LET o == open_relay(s.opened_relay, r, f.at = 4) IN
                [mode |-> sm.mode, status |-> w.doc, relays |-> o.relays,
                 ok |-> sm.ok /\ ~o.raised]

\* resume: calls 1 (mode read), 2 (status read), 3 (status write),
\* 4 (open_relay), 5 and 6 (set_mode)
resume(m, st, r, t, f) ==
    LET mode_data == get_json_from_redis(m, f.at = 1)
        failed == [mode |-> m, status |-> st, relays |-> r, ok |-> FALSE]
    IN
    IF mode_data = Absent THEN failed
    ELSE IF ~Has(mode_data, "paused_at") THEN failed
    ELSE IF ~Has(mode_data, "previous_mode") THEN failed
    ELSE
        LET s == get_status(st, f.at = 2) IN
        IF s = Absent THEN failed
        ELSE IF ~Has(s, "opened_relay") THEN failed
        ELSE
            LET w == set_json_to_redis(st, ShiftedStatus(s, t - mode_data.paused_at), f.at = 3) IN
            IF ~w.ok THEN failed
            ELSE
                LET o == open_relay(s.opened_relay, r, f.at = 4) IN
                IF o.raised THEN [mode |-> m, status |-> w.doc, relays |-> o.relays, ok |-> FALSE]
                ELSE
                    LET sm == set_mode(mode_data.previous_mode, m, After(f, 4)) IN
                    [mode |-> sm.mode, status |-> w.doc, relays |-> o.relays, ok |-> sm.ok]

\* a reset that closes the relays and leaves the status in the store
reset_keeps_status(st, r, f) ==
    LET c == close_all_relays(r, f.at = 1, f.j) IN
    [status |-> st, relays |-> c.relays, ok |-> ~c.raised]

\* reset: calls 1 (close_all_relays), 2 (status delete)
reset(st, r, f) ==
    LET c == close_all_relays(r, f.at = 1, f.j) IN
    IF c.raised THEN [status |-> st, relays |-> c.relays, ok |-> FALSE]
    ELSE
        LET d == clear_status(st, f.at = 2) IN
        [status |-> d.status, relays |-> c.relays, ok |-> d.ok]

\* manual: calls 1 (close_all_relays, whose exception is not caught),
\* 2 (status delete) and 3, 4 (set_mode), whose results are not looked at
manual(m, st, r, f) ==
    LET c == close_all_relays(r, f.at = 1, f.j) IN
    IF c.raised
    THEN [mode |-> m, status |-> st, relays |-> c.relays, raised |-> TRUE, ret |-> NoneMode]
    ELSE
        LET d == clear_status(st, f.at = 2)
            sm == set_mode(MODE_MANUAL, m, After(f, 2))
        IN  [mode |-> sm.mode, status |-> d.status, relays |-> c.relays,
             raised |-> FALSE, ret |-> MODE_MANUAL]

-----------------------------------------------------------------------------
(* POST /settings: api.py *)

Digits == {"0", "1", "2", "3", "4", "5", "6", "7", "8", "9"}

\* re.match(r'^([0-1]?[0-9]|2[0-3]):[0-5][0-9]$', s): $ also matches before a
\* final newline
MatchesHM(s) ==
    /\ Len(s) \in {4, 5}
    /\ IF Len(s) = 4 THEN s[1] \in Digits
       ELSE \/ s[1] \in {"0", "1"} /\ s[2] \in Digits
            \/ s[1] = "2" /\ s[2] \in {"0", "1", "2", "3"}
    /\ s[Len(s) - 2] = ":"
    /\ s[Len(s) - 1] \in {"0", "1", "2", "3", "4", "5"}
    /\ s[Len(s)] \in Digits

time_pattern_matches(s) ==
    \/ MatchesHM(s)
    \/ Len(s) > 0 /\ s[Len(s)] = "\n" /\ MatchesHM(SubSeq(s, 1, Len(s) - 1))

\* update_settings: the validation, then call 1 (settings write)
update_settings(request, se, f) ==
    IF ~time_pattern_matches(request.start_at) THEN [settings |-> se, ok |-> FALSE]
    ELSE IF Len(request.sequence) # NumRelays THEN [settings |-> se, ok |-> FALSE]
    ELSE IF \E i \in 1 .. Len(request.sequence) : request.sequence[i] < 0
         THEN [settings |-> se, ok |-> FALSE]
    ELSE IF Len(request.schedule) # DaysPerWeek THEN [settings |-> se, ok |-> FALSE]
    ELSE
        LET w == set_json_to_redis(se,
                    [start_at |-> request.start_at, sequence |-> request.sequence,
                     schedule |-> request.schedule], f.at = 1)
        IN  [settings |-> w.doc, ok |-> w.ok]

-----------------------------------------------------------------------------
(* POST /mode: api.py *)

\* the names api.py imports from data.mode (line 17)
ApiModeNames == {"get_mode", "set_mode", "VALID_MODES"}

HTTP_OK == 200
HTTP_BAD_REQUEST == 400
HTTP_INTERNAL_ERROR == 500

\* set_current_mode: [mode: the Mode document afterwards, answer: the HTTP
\* status, current: the current mode of the response body (NoneMode when the
\* answer is an error)].  Calls 1 and 2 (set_mode), 3 (mode read).
\* "request.mode == MODE_SEMI_AUTO" is evaluated after set_mode for every
\* valid mode; a name api.py does not have raises NameError, which the
\* handler's "except Exception" turns into a 500 answer
set_current_mode(request_mode, m, f) ==
    IF request_mode \notin VALID_MODES
    THEN [mode |-> m, answer |-> HTTP_BAD_REQUEST, current |-> NoneMode]
    ELSE
        LET sm == set_mode(request_mode, m, f) IN
        IF "MODE_SEMI_AUTO" \notin ApiModeNames
        THEN [mode |-> sm.mode, answer |-> HTTP_INTERNAL_ERROR, current |-> NoneMode]
        ELSE IF ~sm.ok
        THEN [mode |-> sm.mode, answer |-> HTTP_INTERNAL_ERROR, current |-> NoneMode]
        ELSE [mode |-> sm.mode, answer |-> HTTP_OK,
              current |-> get_mode(sm.mode, f.at = 3)]

-----------------------------------------------------------------------------
(* The inputs the operations are called with *)

HM_0000 == <<"0", "0", ":", "0", "0">>
HM_0001 == <<"0", "0", ":", "0", "1">>
HM_2000 == <<"2", "0", ":", "0", "0">>

MondayOnly == <<TRUE, FALSE, FALSE, FALSE, FALSE, FALSE, FALSE>>
SundayOnly == <<FALSE, FALSE, FALSE, FALSE, FALSE, FALSE, TRUE>>
NoDay == <<FALSE, FALSE, FALSE, FALSE, FALSE, FALSE, FALSE>>

\* requests POST /settings accepts
ValidRequests ==
    { [start_at |-> HM_0000, sequence |-> <<1, 1, 1, 1, 1, 1, 1, 1>>, schedule |-> MondayOnly],
      [start_at |-> HM_0000, sequence |-> <<0, 2, 0, 2, 0, 2, 0, 2>>, schedule |-> NoDay],
      [start_at |-> HM_0001, sequence |-> <<2, 0, 2, 0, 2, 0, 2, 0>>, schedule |-> MondayOnly] }

\* requests it rejects: seven durations, a negative duration, six days, no time
InvalidRequests ==
    { [start_at |-> HM_0000, sequence |-> <<1, 1, 1, 1, 1, 1, 1>>, schedule |-> MondayOnly],
      [start_at |-> HM_0000, sequence |-> <<1, 1, 1, 1, 1, 1, 1, -1>>, schedule |-> MondayOnly],
      [start_at |-> HM_0000, sequence |-> <<1, 1, 1, 1, 1, 1, 1, 1>>,
       schedule |-> <<TRUE, FALSE, FALSE, FALSE, FALSE, FALSE>>],
      [start_at |-> <<"n", "o", "o", "n">>, sequence |-> <<1, 1, 1, 1, 1, 1, 1, 1>>,
       schedule |-> MondayOnly] }

SettingsRequests == ValidRequests \cup InvalidRequests

\* what the settings key may hold when the controller starts: nothing (a fresh
\* store), or a document written by hand with too short a sequence
InitialSettings ==
    { Absent,
      [start_at |-> HM_0000, sequence |-> <<1, 1, 1>>, schedule |-> MondayOnly] }

ModeRequests == VALID_MODES \cup {"turbo"}

StepRequests == RelayIds \cup {-1, NumRelays}

\* how far the clock moves between the two readings of set_open_relay
ClockSteps == {0, 1}

-----------------------------------------------------------------------------
(* The state machine *)

Init ==
    /\ mode = Absent
    /\ status = Absent
    /\ settings \in InitialSettings
    /\ relays = {}
    /\ now = 0
    /\ last = [op |-> "init"]

\* one iteration of the poll loop (loop/main.py)
Tick(f, dt) ==
    /\ now + dt <= MaxTime
    /\ \E res \in {main_iteration(mode, relays, status, settings, now, now + dt, f)} :
        /\ relays' = res.relays
        /\ status' = res.status
        /\ last' = [op |-> "tick", did |-> res.did, ok |-> res.ok]
    /\ now' = now + dt
    /\ UNCHANGED <<mode, settings>>

StartSequence(f, dt) ==
    /\ now + dt <= MaxTime
    /\ \E res \in {start_sequence(relays, status, settings, now, now + dt, f)} :
        /\ relays' = res.relays
        /\ status' = res.status
        /\ last' = [op |-> "start_sequence", had_status |-> status # Absent, ok |-> res.ok]
    /\ now' = now + dt
    /\ UNCHANGED <<mode, settings>>

StartStep(relay, f, dt) ==
    /\ now + dt <= MaxTime
    /\ \E res \in {start_step(relay, relays, status, settings, now, now + dt, f)} :
        /\ relays' = res.relays
        /\ status' = res.status
        /\ last' = [op |-> "start_step", arg |-> relay, ok |-> res.ok]
    /\ now' = now + dt
    /\ UNCHANGED <<mode, settings>>

Pause(f) ==
    /\ \E res \in {pause(mode, relays, f)} :
        /\ mode' = res.mode
        /\ relays' = res.relays
        /\ last' = [op |-> "pause", from |-> get_mode(mode, FALSE), fault |-> f.at,
                    ok |-> res.ok]
    /\ UNCHANGED <<status, settings, now>>

Resume(f) ==
    /\ \E res \in {resume(mode, status, relays, now, f)} :
        /\ mode' = res.mode
        /\ status' = res.status
        /\ relays' = res.relays
        /\ last' = [op |-> "resume", ok |-> res.ok]
    /\ UNCHANGED <<settings, now>>

Reset(f) ==
    /\ \E res \in {reset(status, relays, f)} :
        /\ status' = res.status
        /\ relays' = res.relays
        /\ last' = [op |-> "reset", busy |-> status # Absent /\ relays # {}, ok |-> res.ok]
    /\ UNCHANGED <<mode, settings, now>>

Manual(f) ==
    /\ \E res \in {manual(mode, status, relays, f)} :
        /\ mode' = res.mode
        /\ status' = res.status
        /\ relays' = res.relays
        /\ last' = [op |-> "manual", raised |-> res.raised, ret |-> res.ret]
    /\ UNCHANGED <<settings, now>>

SetMode(new_mode, f) ==
    /\ \E res \in {set_mode(new_mode, mode, f)} :
        /\ mode' = res.mode
        /\ last' = [op |-> "set_mode", req |-> new_mode,
                    paused |-> Has(mode, "previous_mode") /\ Has(mode, "paused_at"),
                    ok |-> res.ok]
    /\ UNCHANGED <<status, settings, relays, now>>

UpdateSettings(request, f) ==
    /\ \E res \in {update_settings(request, settings, f)} :
        /\ settings' = res.settings
        /\ last' = [op |-> "update_settings", ok |-> res.ok]
    /\ UNCHANGED <<mode, status, relays, now>>

\* a second passes
AdvanceTime ==
    /\ now < MaxTime
    /\ now' = now + 1
    /\ last' = [op |-> "clock"]
    /\ UNCHANGED <<mode, status, settings, relays>>

\* the operations, called in any order; the store and the driver work
Next ==
    \/ \E dt \in ClockSteps : Tick(NoFault, dt)
    \/ \E dt \in ClockSteps : StartSequence(NoFault, dt)
    \/ \E relay \in StepRequests, dt \in ClockSteps : StartStep(relay, NoFault, dt)
    \/ Pause(NoFault)
    \/ Resume(NoFault)
    \/ Reset(NoFault)
    \/ Manual(NoFault)
    \/ \E new_mode \in ModeRequests : SetMode(new_mode, NoFault)
    \/ \E request \in SettingsRequests : UpdateSettings(request, NoFault)
    \/ AdvanceTime

Spec == Init /\ [][Next]_vars

-----------------------------------------------------------------------------
(* The poll loop running alone: loop/main.py, "while True: ...; time.sleep" *)

\* what the mode key may hold when the loop runs
LoopModes == {Absent, [current |-> "turbo"]} \cup { [current |-> m] : m \in VALID_MODES }

EverySecond == <<1, 1, 1, 1, 1, 1, 1, 1>>

\* what the settings key may hold when the loop runs: nothing, data that is
\* not JSON, documents as POST /settings writes them, and documents written
\* by hand with an empty or missing start_at or schedule, or too short a
\* schedule
LoopSettings ==
    { Absent, RawData,
      [start_at |-> HM_0000, sequence |-> EverySecond, schedule |-> MondayOnly],
      [start_at |-> HM_0001, sequence |-> EverySecond, schedule |-> MondayOnly],
      [start_at |-> HM_2000, sequence |-> EverySecond, schedule |-> SundayOnly],
      [start_at |-> HM_0000, sequence |-> <<0, 2, 0, 2, 0, 2, 0, 2>>, schedule |-> NoDay],
      [start_at |-> <<>>, sequence |-> EverySecond, schedule |-> MondayOnly],
      [start_at |-> HM_0000, sequence |-> EverySecond, schedule |-> <<>>],
      [sequence |-> EverySecond],
      [start_at |-> HM_0000, sequence |-> EverySecond, schedule |-> <<TRUE>>] }

\* the moments the loop is followed from: Monday 00:00:00, Monday 00:00:58,
\* Tuesday 00:00:00 and Sunday 19:59:58
LoopStarts ==
    { 0,
      SecondsPerMinute - 2,
      SecondsPerDay,
      (DaysPerWeek - 1) * SecondsPerDay + 20 * MinutesPerHour * SecondsPerMinute - 2 }

\* the step a sequence started earlier may be at when the loop is followed
LoopSteps == {0, LastRelay - 1, LastRelay}

InLoopWindow(t) == \E b \in LoopStarts : b <= now /\ t <= b + MaxLoopTime

InitLoop ==
    /\ mode \in LoopModes
    /\ settings \in LoopSettings
    /\ now \in LoopStarts
    /\ \/ status = Absent /\ relays = {}
       \/ \E k \in LoopSteps, d \in {0, 1} :
            /\ status = StatusData(k, d, now, now)
            /\ relays = {k}
    /\ last = [op |-> "init", did |-> "noop", ok |-> TRUE, calls |-> 0,
               api |-> "none", after |-> "none"]

\* one iteration of "while True" (main.py 26-61) with the fault f; calls
\* counts the start_sequence() calls made so far, api is the operation the
\* API ran since the last iteration, after is what api was when this
\* iteration began
LoopTickWith(f, dt) ==
    /\ last.op # "tick"
    /\ last.calls < MaxCalls
    /\ InLoopWindow(now + dt)
    /\ \E res \in {main_iteration(mode, relays, status, settings, now, now + dt, f)} :
        /\ relays' = res.relays
        /\ status' = res.status
        /\ last' = [op |-> "tick", did |-> res.did, ok |-> res.ok,
                    calls |-> last.calls + (IF res.did = "trigger" THEN 1 ELSE 0),
                    api |-> "none", after |-> last.api]
    /\ now' = now + dt
    /\ UNCHANGED <<mode, settings>>

\* the same with a working store and driver
LoopTick(dt) == LoopTickWith(NoFault, dt)

\* time.sleep(0.1) (main.py 64), not reached once the process has exited
LoopSleep(dt) ==
    /\ last.op = "tick"
    /\ last.did # "exit"
    /\ InLoopWindow(now + dt)
    /\ now' = now + dt
    /\ last' = [last EXCEPT !.op = "sleep"]
    /\ UNCHANGED <<mode, status, settings, relays>>

NextLoop ==
    \/ \E dt \in ClockSteps : LoopTick(dt)
    \/ \E dt \in ClockSteps : LoopSleep(dt)

SpecLoop == InitLoop /\ [][NextLoop]_vars

\* the loop in an automatic mode with nothing running, complete Settings,
\* reset() called by the API at any moment, and a store whose status write
\* may fail during an iteration
InitLoopReset ==
    /\ mode \in { [current |-> m] : m \in {MODE_AUTO, MODE_SEMI_AUTO} }
    /\ settings \in { se \in LoopSettings : ScheduleMatches(se, 0) \/ ScheduleMatches(se, SecondsPerMinute) }
    /\ now \in { b \in LoopStarts : b <= SecondsPerMinute }
    /\ status = Absent /\ relays = {}
    /\ last = [op |-> "init", did |-> "noop", ok |-> TRUE, calls |-> 0,
               api |-> "none", after |-> "none"]

\* POST /reset between two statements of the loop
LoopReset ==
    /\ last.api = "none"
    /\ \E res \in {reset(status, relays, NoFault)} :
        /\ status' = res.status
        /\ relays' = res.relays
    /\ last' = [last EXCEPT !.api = "reset"]
    /\ UNCHANGED <<mode, settings, now>>

\* the iteration's faults: none, or the status write of start_step fails
TickFaults == {NoFault, [at |-> 8, j |-> 0]}

NextLoopReset ==
    \/ \E f \in TickFaults, dt \in ClockSteps : LoopTickWith(f, dt)
    \/ \E dt \in ClockSteps : LoopSleep(dt)
    \/ LoopReset

SpecLoopReset == InitLoopReset /\ [][NextLoopReset]_vars

\* the poll loop followed over days and weeks, with no API call: an automatic
\* mode, a schedule, nothing running, Monday 00:00:58
EveryDay == <<TRUE, TRUE, TRUE, TRUE, TRUE, TRUE, TRUE>>

WeeksSettings ==
    { [start_at |-> HM_0000, sequence |-> EverySecond, schedule |-> MondayOnly],
      [start_at |-> HM_0000, sequence |-> EverySecond, schedule |-> EveryDay],
      [start_at |-> HM_0001, sequence |-> EverySecond, schedule |-> EveryDay] }

\* 00:00:58 of the next day and of the Mondays of the following weeks
HoldStarts ==
    { SecondsPerDay + SecondsPerMinute - 2 }
      \cup { w * DaysPerWeek * SecondsPerDay + SecondsPerMinute - 2 : w \in 1..MaxWeeks }

InHoldWindow(t) ==
    \E b \in {SecondsPerMinute - 2} \cup HoldStarts : b <= now /\ t <= b + MaxLoopTime

InitWeeks ==
    /\ mode \in { [current |-> m] : m \in {MODE_AUTO, MODE_SEMI_AUTO} }
    /\ settings \in WeeksSettings
    /\ now = SecondsPerMinute - 2
    /\ status = Absent /\ relays = {}
    /\ last = [op |-> "init", did |-> "noop", ok |-> TRUE, calls |-> 0]

\* one iteration of "while True" (main.py 26-61)
WeeksTick(dt) ==
    /\ last.op # "tick"
    /\ InHoldWindow(now + dt)
    /\ \E res \in {main_iteration(mode, relays, status, settings, now, now + dt, NoFault)} :
        /\ relays' = res.relays
        /\ status' = res.status
        /\ last' = [op |-> "tick", did |-> res.did, ok |-> res.ok,
                    calls |-> last.calls + (IF res.did = "trigger" THEN 1 ELSE 0)]
    /\ now' = now + dt
    /\ UNCHANGED <<mode, settings>>

\* time.sleep(0.1) (main.py 64)
WeeksSleep(dt) ==
    /\ last.op = "tick"
    /\ InHoldWindow(now + dt)
    /\ now' = now + dt
    /\ last' = [last EXCEPT !.op = "sleep"]
    /\ UNCHANGED <<mode, status, settings, relays>>

\* the iterations made while the last step is the current one, taken
\* together: with opened_relay = 7 an iteration changes nothing, whether
\* the step is finished or not (main.py 36-41), so that only the clock moves
WeeksHold(t) ==
    /\ last.op = "sleep"
    /\ status # Absent /\ Has(status, "opened_relay") /\ status.opened_relay = LastRelay
    /\ main_iteration(mode, relays, status, settings, now, now, NoFault).did = "noop"
    /\ now < t
    /\ now' = t
    /\ last' = [last EXCEPT !.op = "hold"]
    /\ UNCHANGED <<mode, status, settings, relays>>

NextWeeks ==
    \/ \E dt \in ClockSteps : WeeksTick(dt)
    \/ \E dt \in ClockSteps : WeeksSleep(dt)
    \/ \E t \in HoldStarts : WeeksHold(t)

SpecWeeks == InitWeeks /\ [][NextWeeks]_vars

\* the loop keeps iterating, and the clock does not stand still for ever: one
\* sleep in ten crosses a second
SpecLoopFair ==
    InitLoop /\ [][NextLoop]_vars /\ WF_vars(NextLoop) /\ SF_vars(LoopSleep(1))

-----------------------------------------------------------------------------
(* The operations, with in addition the round trip of pause() and resume()  *)

\* pause() at the current second, then resume() P seconds later, with no other
\* operation in between
PauseResume(P, f) ==
    /\ now + P <= MaxTime
    /\ \E p \in {pause(mode, relays, f)} :
       \E res \in {resume(p.mode, status, p.relays, now + P, f)} :
        /\ mode' = res.mode
        /\ status' = res.status
        /\ relays' = res.relays
        /\ last' = [op |-> "pause_resume", from |-> get_mode(mode, FALSE),
                    before |-> status, P |-> P, paused |-> p.ok, ok |-> res.ok]
    /\ now' = now + P
    /\ UNCHANGED settings

NextRoundTrip ==
    \/ Next
    \/ \E P \in 0 .. MaxTime : PauseResume(P, NoFault)

SpecRoundTrip == Init /\ [][NextRoundTrip]_vars

-----------------------------------------------------------------------------
(* The operations on a store that already holds documents: what an earlier  *)
(* run, the seeder or an operator left under the three keys.  The Mode      *)
(* documents include the ones resume() expects, with previous_mode and      *)
(* paused_at, and ones that lack either field.                              *)

PausedFrom == {MODE_MANUAL, MODE_AUTO, MODE_SEMI_AUTO}

ModeDocs ==
    {Absent}
        \cup { [current |-> m] : m \in VALID_MODES }
        \cup { [current |-> MODE_PAUSE, previous_mode |-> m, paused_at |-> t] :
                 m \in PausedFrom, t \in {0, 1} }
        \cup { [current |-> MODE_PAUSE, paused_at |-> 0],
               [current |-> MODE_PAUSE, previous_mode |-> MODE_AUTO] }

\* status documents: none, the step of relay 0, 3 or 7 with or without a
\* deadline, one without opened_relay and one whose opened_relay is no relay
StoredStatusDocs ==
    {Absent}
        \cup { StatusData(k, d, 0, 0) : k \in {0, 3, LastRelay}, d \in {0, 1, 2} }
        \cup { [opened_at |-> 0], [opened_relay |-> NumRelays, opened_at |-> 0] }

StoredSettingsDocs ==
    { Absent,
      [start_at |-> HM_0001, sequence |-> <<2, 0, 2, 0, 2, 0, 2, 0>>, schedule |-> MondayOnly] }

\* the relays a status document stands for: its relay energized, or all closed
RelaysFor(st) ==
    {{}} \cup (IF st # Absent /\ Has(st, "opened_relay") /\ st.opened_relay \in RelayIds
               THEN {{st.opened_relay}} ELSE {})

InitStore ==
    /\ mode \in ModeDocs
    /\ status \in StoredStatusDocs
    /\ settings \in StoredSettingsDocs
    /\ relays \in RelaysFor(status)
    /\ now \in 0 .. 1
    /\ last = [op |-> "init"]

NextStore ==
    \/ Pause(NoFault)
    \/ Resume(NoFault)
    \/ Reset(NoFault)
    \/ \E new_mode \in ModeRequests : SetMode(new_mode, NoFault)
    \/ \E dt \in ClockSteps : StartSequence(NoFault, dt)
    \/ AdvanceTime

SpecStore == InitStore /\ [][NextStore]_vars

-----------------------------------------------------------------------------
(* The stored documents, with in addition a resume() that fails at its      *)
(* open_relay or at its mode write and is called again later                *)

\* the faults of resume after its status write: open_relay raises (4), the
\* mode write fails (5)
ResumeFaults == {[at |-> 4, j |-> 0], [at |-> 5, j |-> 0]}

\* resume() with the fault f, then P seconds later resume() again with a
\* working store and driver
ResumeRetry(P, f) ==
    /\ now + P <= MaxTime
    /\ \E first \in {resume(mode, status, relays, now, f)} :
       \E res \in {resume(first.mode, first.status, first.relays, now + P, NoFault)} :
        /\ mode' = res.mode
        /\ status' = res.status
        /\ relays' = res.relays
        /\ last' = [op |-> "resume_retry", before |-> status, paused |-> mode,
                    persisted |-> first.status, first_ok |-> first.ok, ok |-> res.ok]
    /\ now' = now + P
    /\ UNCHANGED settings

NextRetry ==
    \/ NextStore
    \/ \E P \in 0 .. MaxTime, f \in ResumeFaults : ResumeRetry(P, f)

SpecRetry == InitStore /\ [][NextRetry]_vars

-----------------------------------------------------------------------------
(* manual() statement by statement (commands/manual.py), running alone: no  *)
(* other operation starts while a call is between two statements.  The      *)
(* driver and the store may fail: close_all_relays() raises out of manual() *)
(* and ends the call; the results of clear_status() and set_mode() are not  *)
(* looked at.  last.pc is the statement the call has completed, last.wrote  *)
(* tells whether the call has written the Mode document.                    *)

InManual == last.op = "manual_call" /\ last.pc \in {"closed", "cleared"}

\* close_all_relays()
ManualCloseAll(failed, j) ==
    /\ ~InManual
    /\ \E c \in {close_all_relays(relays, failed, j)} :
        /\ relays' = c.relays
        /\ last' = [op |-> "manual_call", pc |-> IF c.raised THEN "raised" ELSE "closed",
                    wrote |-> FALSE]
    /\ UNCHANGED <<mode, status, settings, now>>

\* clear_status()
ManualClearStatus(failed) ==
    /\ last.op = "manual_call" /\ last.pc = "closed"
    /\ status' = clear_status(status, failed).status
    /\ last' = [op |-> "manual_call", pc |-> "cleared", wrote |-> FALSE]
    /\ UNCHANGED <<mode, settings, relays, now>>

\* set_mode(MODE_MANUAL); return MODE_MANUAL
ManualSetMode(f) ==
    /\ last.op = "manual_call" /\ last.pc = "cleared"
    /\ mode' = set_mode(MODE_MANUAL, mode, f).mode
    /\ last' = [op |-> "manual_call", pc |-> "done", wrote |-> f.at # 1]
    /\ UNCHANGED <<status, settings, relays, now>>

\* the faults of set_mode: none, the write fails, the verification read fails
SetModeFaults == {NoFault, [at |-> 1, j |-> 0], [at |-> 2, j |-> 0]}

\* the relay at which a failing close_all_relays raises
RaiseAt == {0, 4}

NextManual ==
    \/ \E failed \in BOOLEAN, j \in RaiseAt : ManualCloseAll(failed, j)
    \/ \E failed \in BOOLEAN : ManualClearStatus(failed)
    \/ \E f \in SetModeFaults : ManualSetMode(f)
    \/ ~InManual /\ \E dt \in ClockSteps : StartSequence(NoFault, dt)
    \/ ~InManual /\ \E relay \in StepRequests, dt \in ClockSteps : StartStep(relay, NoFault, dt)
    \/ ~InManual /\ \E new_mode \in ModeRequests : SetMode(new_mode, NoFault)
    \/ ~InManual /\ \E request \in ValidRequests : UpdateSettings(request, NoFault)
    \/ ~InManual /\ AdvanceTime

SpecManual == Init /\ [][NextManual]_vars

-----------------------------------------------------------------------------
(* pause() with a store or a driver that fails at one of its calls          *)

\* no fault, or a fault at the mode read (1), the mode write (2), the
\* verification read (3) or close_all_relays (4)
PauseFaults == { [at |-> a, j |-> j] : a \in 0 .. 4, j \in RaiseAt }

NextPauseFaults ==
    \/ \E f \in PauseFaults : Pause(f)
    \/ \E new_mode \in VALID_MODES : SetMode(new_mode, NoFault)
    \/ \E dt \in ClockSteps : StartSequence(NoFault, dt)
    \/ \E relay \in RelayIds, dt \in ClockSteps : StartStep(relay, NoFault, dt)
    \/ \E request \in ValidRequests : UpdateSettings(request, NoFault)
    \/ AdvanceTime

SpecPauseFaults == Init /\ [][NextPauseFaults]_vars

-----------------------------------------------------------------------------
(* The handlers of api.py that write documents: POST /settings with every   *)
(* kind of request and a store that may fail, POST /mode                    *)

\* start_at strings: one digit for the hour, a final newline, hour 24,
\* minute 60
H_800 == <<"8", ":", "0", "0">>
HM_0000_newline == HM_0000 \o <<"\n">>
HM_2400 == <<"2", "4", ":", "0", "0">>
HM_0060 == <<"0", "0", ":", "6", "0">>

ApiRequests ==
    SettingsRequests \cup
    { [start_at |-> a, sequence |-> EverySecond, schedule |-> MondayOnly] :
        a \in {H_800, HM_0000_newline, HM_2400, HM_0060, HM_2000} }

\* the settings write works or fails
SettingsFaults == {NoFault, [at |-> 1, j |-> 0]}

\* POST /mode
PostMode(request_mode, f) ==
    /\ \E res \in {set_current_mode(request_mode, mode, f)} :
        /\ mode' = res.mode
        /\ last' = [op |-> "post_mode", req |-> request_mode, answer |-> res.answer,
                    current |-> res.current]
    /\ UNCHANGED <<status, settings, relays, now>>

NextSettings ==
    \/ \E request \in ApiRequests, f \in SettingsFaults : UpdateSettings(request, f)
    \/ \E request_mode \in ModeRequests : PostMode(request_mode, NoFault)
    \/ \E dt \in ClockSteps : Tick(NoFault, dt)
    \/ AdvanceTime

SpecSettings == Init /\ [][NextSettings]_vars

-----------------------------------------------------------------------------
(* set_mode() statement by statement, with another writer of the Mode       *)
(* document (the API, pause(), manual()) acting between its write and its   *)
(* verification read.  last.pc is the statement the call has completed,     *)
(* last.raced tells whether another writer wrote in between.                *)

InSetMode == last.op = "set_mode_call" /\ last.pc = "wrote"

\* the validation and set_json_to_redis('mode', mode_data)
SetModeWrite(new_mode, failed) ==
    /\ ~InSetMode
    /\ IF new_mode \notin VALID_MODES
       THEN /\ mode' = mode
            /\ last' = [op |-> "set_mode_call", pc |-> "done", req |-> new_mode,
                        raced |-> FALSE, ok |-> FALSE]
       ELSE \E w \in {set_json_to_redis(mode, [current |-> new_mode], failed)} :
            /\ mode' = w.doc
            /\ last' = [op |-> "set_mode_call", pc |-> IF w.ok THEN "wrote" ELSE "done",
                        req |-> new_mode, raced |-> FALSE, ok |-> FALSE]
    /\ UNCHANGED <<status, settings, relays, now>>

\* verification = get_mode(); return verification == new_mode
SetModeVerify(failed) ==
    /\ InSetMode
    /\ last' = [last EXCEPT !.pc = "done",
                            !.ok = set_mode_verify(last.req, mode, failed)]
    /\ UNCHANGED <<mode, status, settings, relays, now>>

\* another caller's set_mode runs between the write and the verification
OtherWriter(other_mode) ==
    /\ InSetMode
    /\ mode' = set_mode(other_mode, mode, NoFault).mode
    /\ last' = [last EXCEPT !.raced = TRUE]
    /\ UNCHANGED <<status, settings, relays, now>>

NextSetMode ==
    \/ \E new_mode \in ModeRequests, failed \in BOOLEAN : SetModeWrite(new_mode, failed)
    \/ \E failed \in BOOLEAN : SetModeVerify(failed)
    \/ \E other_mode \in VALID_MODES : OtherWriter(other_mode)
    \/ ~InSetMode /\ Pause(NoFault)
    \/ ~InSetMode /\ \E dt \in ClockSteps : StartSequence(NoFault, dt)
    \/ ~InSetMode /\ \E request \in ValidRequests : UpdateSettings(request, NoFault)
    \/ ~InSetMode /\ AdvanceTime

SpecSetMode == Init /\ [][NextSetMode]_vars

-----------------------------------------------------------------------------
(* One iteration of the poll loop statement by statement, with pause(),     *)
(* reset() and manual() called by the API between two of its statements.    *)
(* last.pc is the statement the iteration has completed, last.current_mode  *)
(* and last.opened_relay are its local variables, last.during is the set of *)
(* operations the API ran since the iteration read the mode.                *)

InTick == last.op = "tick_call" /\ last.pc # "done"

\* the value of status.get('opened_relay') when the key is missing
NoRelay == -1

\* current_mode = get_mode()
TickReadMode ==
    /\ ~InTick
    /\ last' = [op |-> "tick_call", pc |-> "read_mode",
                current_mode |-> get_mode(mode, FALSE), opened_relay |-> NoRelay,
                during |-> {}, did |-> "noop"]
    /\ UNCHANGED <<mode, status, settings, relays, now>>

\* the test of the mode and status = get_status(); when there is no status,
\* the schedule test and start_sequence()
TickReadStatus(dt) ==
    /\ InTick /\ last.pc = "read_mode"
    /\ now + dt <= MaxTime
    /\ IF ~tick_enters(last.current_mode)
       THEN /\ dt = 0
            /\ last' = [last EXCEPT !.pc = "done"]
            /\ UNCHANGED <<status, relays>>
       ELSE IF get_status(status, FALSE) # Absent
       THEN /\ dt = 0
            /\ last' = [last EXCEPT !.pc = "read_status",
                          !.opened_relay = IF Has(status, "opened_relay")
                                           THEN status.opened_relay ELSE NoRelay]
            /\ UNCHANGED <<status, relays>>
       ELSE \E res \in {main_iteration([current |-> last.current_mode], relays, status,
                                        settings, now, now + dt, NoFault)} :
            /\ dt = 0 \/ res.did = "trigger"
            /\ relays' = res.relays
            /\ status' = res.status
            /\ last' = [last EXCEPT !.pc = "done", !.did = res.did]
    /\ now' = now + dt
    /\ UNCHANGED <<mode, settings>>

\* is_current_step_finished(), which reads the status again, and the test
\* of opened_relay
TickCheckFinished ==
    /\ InTick /\ last.pc = "read_status"
    /\ last' = [last EXCEPT !.pc =
                    IF /\ is_current_step_finished(status, settings, now, NoFault)
                       /\ last.opened_relay # NoRelay
                       /\ last.opened_relay < LastRelay
                    THEN "finished" ELSE "done"]
    /\ UNCHANGED <<mode, status, settings, relays, now>>

\* start_step(opened_relay + 1)
TickStartStep(dt) ==
    /\ InTick /\ last.pc = "finished"
    /\ now + dt <= MaxTime
    /\ \E res \in {start_step(next_relay(last.opened_relay), relays, status, settings,
                                now, now + dt, NoFault)} :
        /\ relays' = res.relays
        /\ status' = res.status
        /\ last' = [last EXCEPT !.pc = "done", !.did = "advance"]
    /\ now' = now + dt
    /\ UNCHANGED <<mode, settings>>

\* POST /pause while the iteration is between two statements
PauseDuringTick ==
    /\ InTick
    /\ \E res \in {pause(mode, relays, NoFault)} :
        /\ mode' = res.mode
        /\ relays' = res.relays
    /\ last' = [last EXCEPT !.during = @ \cup {"pause"}]
    /\ UNCHANGED <<status, settings, now>>

\* POST /reset while the iteration is between two statements
ResetDuringTick ==
    /\ InTick
    /\ \E res \in {reset(status, relays, NoFault)} :
        /\ status' = res.status
        /\ relays' = res.relays
    /\ last' = [last EXCEPT !.during = @ \cup {"reset"}]
    /\ UNCHANGED <<mode, settings, now>>

\* manual() while the iteration is between two statements
ManualDuringTick ==
    /\ InTick
    /\ \E res \in {manual(mode, status, relays, NoFault)} :
        /\ mode' = res.mode
        /\ status' = res.status
        /\ relays' = res.relays
    /\ last' = [last EXCEPT !.during = @ \cup {"manual"}]
    /\ UNCHANGED <<settings, now>>

\* between two iterations the API pauses, resets, goes to manual or to an
\* automatic mode, writes settings and, unless paused, starts a sequence
NextTickRace ==
    \/ TickReadMode
    \/ \E dt \in ClockSteps : TickReadStatus(dt)
    \/ TickCheckFinished
    \/ \E dt \in ClockSteps : TickStartStep(dt)
    \/ PauseDuringTick
    \/ ResetDuringTick
    \/ ManualDuringTick
    \/ ~InTick /\ Pause(NoFault)
    \/ ~InTick /\ Reset(NoFault)
    \/ ~InTick /\ Manual(NoFault)
    \/ ~InTick /\ \E new_mode \in {MODE_AUTO, MODE_SEMI_AUTO} : SetMode(new_mode, NoFault)
    \/ ~InTick /\ get_mode(mode, FALSE) # MODE_PAUSE
               /\ \E dt \in ClockSteps : StartSequence(NoFault, dt)
    \/ ~InTick /\ \E request \in ValidRequests : UpdateSettings(request, NoFault)
    \/ ~InTick /\ AdvanceTime

SpecTickRace == Init /\ [][NextTickRace]_vars

-----------------------------------------------------------------------------
(* is_current_step_finished as a function of the two documents it reads    *)
(* and of the clock: the documents are drawn from bounded sets             *)

\* status documents as set_open_relay writes them
StatusDocs ==
    {Absent} \cup
    { StatusData(k, d, t, t) : k \in {0, 3, LastRelay}, d \in {0, 1, 2}, t \in {0, 1} }

\* settings documents: none, too short a sequence, no sequence, well-formed
SettingsDocs ==
    InitialSettings \cup ValidRequests
        \cup { [start_at |-> HM_0000, schedule |-> MondayOnly] }

InitFinished ==
    /\ mode = Absent
    /\ status \in StatusDocs
    /\ settings \in SettingsDocs
    /\ relays = {}
    /\ now \in 0 .. MaxTime
    /\ last = [op |-> "init"]

IsCurrentStepFinished ==
    /\ last' = [op |-> "is_current_step_finished",
                ret |-> is_current_step_finished(status, settings, now, NoFault)]
    /\ UNCHANGED <<mode, status, settings, relays, now>>

NextFinished == IsCurrentStepFinished \/ AdvanceTime

SpecFinished == InitFinished /\ [][NextFinished]_vars

-----------------------------------------------------------------------------
(* Properties *)

\* Mode.current as get_mode reads it
CurrentMode == get_mode(mode, FALSE)

\* the step of the status document has a deadline and the clock has reached it
DeadlinePassed(st, t) == st # Absent /\ Has(st, "should_close_at") /\ t >= st.should_close_at

C2_StartStepOpensExactlyRelay ==
    (last.op = "start_step" /\ last.ok) =>
        /\ last.arg \in RelayIds
        /\ relays = {last.arg}
        /\ status # Absent
        /\ status.opened_relay = last.arg

\* C2 witness: start_step(5) has succeeded
C2_Witness ==
    /\ last.op = "start_step" /\ last.ok /\ last.arg = 5
    /\ relays = {5}

\* C3 (the claim as stated): whenever the Status document is absent (no
\* operation is running between two actions), no relay is energized.
C3_AbsentStatusMeansAllClosed == status = Absent => relays = {}

\* C4: in AUTO or SEMI_AUTO, a tick that finds the step of relay k < 7 past
\* its deadline starts step k+1 and nothing else (relay k+1 is the one
\* energized relay, Status is the one of step k+1, or is left as it was when
\* start_step failed); any other tick leaves Status and the relays alone.  So
\* under ticks Status.opened_relay never decreases, never skips an index and
\* grows by exactly 1 when it changes.
C4_TickAdvancesByOne ==
    [][ (last'.op = "tick" /\ status # Absent) =>
            /\ mode' = mode /\ settings' = settings
            /\ status' # Absent
            /\ IF CurrentMode \in {MODE_AUTO, MODE_SEMI_AUTO}
                  /\ DeadlinePassed(status, now) /\ status.opened_relay < LastRelay
               THEN /\ last'.did = "advance"
                    /\ relays' = {status.opened_relay + 1}
                    /\ IF last'.ok
                       THEN /\ status'.opened_relay = status.opened_relay + 1
                            /\ status'.opened_at = now
                       ELSE status' = status
               ELSE /\ last'.did = "noop"
                    /\ status' = status /\ relays' = relays ]_vars

\* C4 witness: in semi-auto mode a tick has just advanced the sequence from
\* step 1 to step 2 at second 2, and relay 2 alone is energized
C4_Witness ==
    /\ last.op = "tick" /\ last.did = "advance" /\ last.ok
    /\ CurrentMode = MODE_SEMI_AUTO
    /\ status.opened_relay = 2 /\ status.opened_at = 2
    /\ relays = {2}

\* C5: terminal hold.  Once the step of relay 7 is past its deadline, a poll
\* tick changes nothing: Mode, Settings, Status (opened_relay = 7) and the
\* relays are as before and neither a step nor a sequence is started.
C5_TerminalHold ==
    [][ (last'.op = "tick" /\ DeadlinePassed(status, now)
            /\ status.opened_relay = LastRelay) =>
            /\ last'.did = "noop"
            /\ status' = status /\ relays' = relays
            /\ mode' = mode /\ settings' = settings ]_vars

\* C5 witness: in AUTO, a tick has run after the deadline of step 7 and relay 7
\* is still the energized one
C5_Witness ==
    /\ last.op = "tick"
    /\ CurrentMode = MODE_AUTO
    /\ DeadlinePassed(status, now) /\ status.opened_relay = LastRelay
    /\ relays = {LastRelay}

\* the duration Settings gives relay i, when Settings has one
HasDuration(se, i) == se # Absent /\ Has(se, "sequence") /\ i < Len(se.sequence)

\* C6: a successful start_step(i) with Settings.sequence[i] = 0 writes a
\* Status without should_close_at; for such a Status is_current_step_finished
\* is false at every time, and a poll tick leaves Status and the relays alone.
C6_ZeroDurationNeverFinishes ==
    /\ [][ (last'.op = "start_step" /\ last'.ok /\ settings.sequence[last'.arg + 1] = 0) =>
             ~Has(status', "should_close_at") ]_vars
    /\ [] ( (status # Absent /\ ~Has(status, "should_close_at")) =>
             \A t \in 0 .. (MaxTime + 1) :
                 ~is_current_step_finished(status, settings, t, NoFault) )
    /\ [][ (last'.op = "tick" /\ status # Absent /\ ~Has(status, "should_close_at")) =>
             (last'.did = "noop" /\ status' = status /\ relays' = relays) ]_vars

\* C6 witness: in AUTO, two seconds after a step without deadline began, a
\* tick has run and the step is still the current one
C6_Witness ==
    /\ last.op = "tick" /\ last.did = "noop"
    /\ CurrentMode = MODE_AUTO
    /\ status # Absent /\ ~Has(status, "should_close_at")
    /\ HasDuration(settings, status.opened_relay)
    /\ settings.sequence[status.opened_relay + 1] = 0
    /\ now >= status.opened_at + 2
    /\ relays = {status.opened_relay}

\* C7 (the claim as stated): after a successful start_step(i) with
\* Settings.sequence[i] = D > 0, Status.should_close_at = opened_at + D, and
\* is_current_step_finished is false at every t < opened_at + D and true at
\* every t >= opened_at + D.
C7_DeadlineIsOpenedAtPlusDuration ==
    (last.op = "start_step" /\ last.ok /\ settings.sequence[last.arg + 1] > 0) =>
        LET D == settings.sequence[last.arg + 1] IN
        /\ Has(status, "should_close_at")
        /\ status.should_close_at = status.opened_at + D
        /\ \A t \in 0 .. (MaxTime + 1) :
             is_current_step_finished(status, settings, t, NoFault)
                 <=> (t >= status.opened_at + D)

\* Settings is usable for the step of Status: present, with a sequence that has
\* an entry for opened_relay
SettingsCoverStep(st, se) == HasDuration(se, st.opened_relay)

\* C8 (the claim as stated): is_current_step_finished is false when Status is
\* absent, false when should_close_at is absent, and otherwise exactly
\* now >= should_close_at, whatever the Settings document.
C8_FinishedIgnoresSettings ==
    last.op = "is_current_step_finished" => (last.ret <=> DeadlinePassed(status, now))

\* C8 (amended): is_current_step_finished is false when Status is absent, when
\* should_close_at is absent, and when Settings is absent, has no sequence or
\* has a sequence with no entry for opened_relay; otherwise it is exactly
\* now >= should_close_at.
C8_FinishedNeedsSettings ==
    last.op = "is_current_step_finished" =>
        (last.ret <=> (DeadlinePassed(status, now) /\ SettingsCoverStep(status, settings)))

\* C8 witness: asked at the very second of the deadline, with usable Settings,
\* the answer is true
C8_Witness ==
    /\ last.op = "is_current_step_finished" /\ last.ret
    /\ status # Absent /\ Has(status, "should_close_at")
    /\ now = status.should_close_at
    /\ SettingsCoverStep(status, settings)

\* C9 (the claim as stated): a successful pause() called while Mode.current is
\* m in {MANUAL, AUTO, SEMI_AUTO} leaves the Mode document equal to
\* {current: PAUSE, previous_mode: m, paused_at: now}.
C9_PauseRecordsPreviousMode ==
    [][ (last'.op = "pause" /\ last'.ok
            /\ CurrentMode \in {MODE_MANUAL, MODE_AUTO, MODE_SEMI_AUTO}) =>
            mode' = [current |-> MODE_PAUSE, previous_mode |-> CurrentMode,
                     paused_at |-> now] ]_vars

\* C10: pause() called while Mode.current is already PAUSE returns success and
\* changes neither the Mode document, nor Status, nor any relay.
C10_PauseIsIdempotent ==
    [][ (last'.op = "pause" /\ CurrentMode = MODE_PAUSE) =>
            /\ last'.ok
            /\ mode' = mode /\ status' = status /\ relays' = relays
            /\ settings' = settings ]_vars

\* C10 witness: pause() has returned success in PAUSE mode and the relay that
\* was energized before the call still is
C10_Witness ==
    /\ last.op = "pause" /\ last.ok
    /\ CurrentMode = MODE_PAUSE
    /\ relays # {}

\* the status document holds a step resume() can take up again
ActiveStep(st) == st # Absent /\ Has(st, "opened_relay") /\ st.opened_relay \in RelayIds

\* C11 (the claim as stated): with an active step whose deadline is S and
\* Mode.current = m in {AUTO, SEMI_AUTO}, pause() followed P seconds later by
\* resume() succeeds, leaves Status as it was except should_close_at = S + P,
\* and leaves Mode.current = m.
C11_PauseResumeRoundTrip ==
    (last.op = "pause_resume" /\ last.from \in {MODE_AUTO, MODE_SEMI_AUTO}
        /\ ActiveStep(last.before) /\ Has(last.before, "should_close_at")) =>
        /\ last.paused /\ last.ok
        /\ status = [last.before EXCEPT !.should_close_at = @ + last.P]
        /\ CurrentMode = last.from

\* C12: a successful pause() called in a mode other than PAUSE ends with all
\* eight relays closed and the Status document exactly as it was.
C12_PauseClosesRelaysKeepsStatus ==
    [][ (last'.op = "pause" /\ last'.ok /\ CurrentMode # MODE_PAUSE) =>
            /\ relays' = {}
            /\ status' = status ]_vars

\* C12 witness: pause() has succeeded in AUTO mode during a step with a
\* deadline; the step is still in Status and no relay is energized
C12_Witness ==
    /\ last.op = "pause" /\ last.ok /\ last.from = MODE_AUTO
    /\ ActiveStep(status) /\ Has(status, "should_close_at")
    /\ relays = {}

\* the Mode document has what resume() requires
HasPauseFields(m) == m # Absent /\ Has(m, "paused_at") /\ Has(m, "previous_mode")

\* C13: resume() called when the Mode document is absent, or has no paused_at,
\* or has no previous_mode, returns failure and changes neither Mode, nor
\* Status, nor any relay.
C13_ResumeNeedsPauseFields ==
    [][ (last'.op = "resume" /\ ~HasPauseFields(mode)) =>
            /\ ~last'.ok
            /\ mode' = mode /\ status' = status /\ relays' = relays ]_vars

\* C13 witness: resume() has failed on a Mode document that has paused_at but
\* no previous_mode, with a step in Status that it could have taken up again
C13_Witness ==
    /\ last.op = "resume" /\ ~last.ok
    /\ Has(mode, "paused_at") /\ ~Has(mode, "previous_mode")
    /\ ActiveStep(status) /\ Has(status, "should_close_at")

\* C14: resume() called on a Mode document with previous_mode and paused_at,
\* when Status is absent or its opened_relay is missing or outside 0..7,
\* returns failure, opens no relay, writes no Status and leaves the Mode
\* document (current = PAUSE, previous_mode, paused_at) as it was.
C14_ResumeNeedsActiveStep ==
    [][ (last'.op = "resume" /\ HasPauseFields(mode) /\ ~ActiveStep(status)) =>
            /\ ~last'.ok
            /\ relays' = relays /\ status' = status
            /\ mode' = mode ]_vars

\* C14 witness: resume() has failed while paused because opened_relay is 8
C14_Witness ==
    /\ last.op = "resume" /\ ~last.ok
    /\ HasPauseFields(mode) /\ mode.current = MODE_PAUSE
    /\ status # Absent /\ Has(status, "opened_relay") /\ status.opened_relay = NumRelays

\* C15: in every reachable state the Mode document has previous_mode and
\* paused_at both or neither, and has them only when current = PAUSE.
C15_PauseFieldsOnlyWhilePaused ==
    /\ Has(mode, "previous_mode") <=> Has(mode, "paused_at")
    /\ (Has(mode, "previous_mode") \/ Has(mode, "paused_at")) =>
            (Has(mode, "current") /\ mode.current = MODE_PAUSE)

\* C15 witness: pause() has succeeded from AUTO and the Mode document is
\* {current: pause}, with neither field
C15_Witness ==
    /\ last.op = "pause" /\ last.ok /\ last.from = MODE_AUTO
    /\ mode = [current |-> MODE_PAUSE]

\* C16: set_mode(m) with m a valid mode succeeds from any Mode document and
\* leaves the Mode document equal to {current: m}, without the previous_mode
\* and paused_at it may have had.
C16_SetModeReplacesDocument ==
    [][ (last'.op = "set_mode" /\ last'.req \in VALID_MODES) =>
            /\ last'.ok
            /\ mode' = [current |-> last'.req] ]_vars

\* C16 witness: set_mode(auto) has replaced a Mode document that had
\* previous_mode and paused_at
C16_Witness ==
    /\ last.op = "set_mode" /\ last.ok /\ last.paused /\ last.req = MODE_AUTO
    /\ mode = [current |-> MODE_AUTO]

\* C17: set_mode(x) with x not a valid mode returns failure and changes
\* neither the Mode document, nor Status, nor any relay.
C17_SetModeRejectsInvalid ==
    [][ (last'.op = "set_mode" /\ last'.req \notin VALID_MODES) =>
            /\ ~last'.ok
            /\ mode' = mode /\ status' = status /\ relays' = relays ]_vars

\* C17 witness: set_mode("turbo") has failed in AUTO mode during a step
C17_Witness ==
    /\ last.op = "set_mode" /\ ~last.ok /\ last.req = "turbo"
    /\ CurrentMode = MODE_AUTO
    /\ ActiveStep(status) /\ relays = {status.opened_relay}

\* C18 (the claim as stated): manual() closes all relays, then clears Status,
\* then writes Mode.current = MANUAL; so in every state of a call running
\* alone, either the call has not written the Mode document yet (and has left
\* it as it was), or Mode.current = MANUAL, no relay is energized and Status
\* is absent.
C18_ManualFlipsModeLast ==
    [][ last'.op = "manual_call" =>
            IF last'.wrote
            THEN CurrentMode' = MODE_MANUAL /\ relays' = {} /\ status' = Absent
            ELSE mode' = mode ]_vars

\* C19: a successful reset() ends with all relays closed and Status absent and
\* leaves the Mode document (current, previous_mode, paused_at) and Settings
\* as they were, whatever the mode, PAUSE included.
C19_ResetKeepsMode ==
    [][ (last'.op = "reset" /\ last'.ok) =>
            /\ relays' = {} /\ status' = Absent
            /\ mode' = mode /\ settings' = settings ]_vars

\* C19 witness: reset() has succeeded while paused and has ended a step whose
\* relay was energized; previous_mode and paused_at are still in the Mode
\* document
C19_Witness ==
    /\ last.op = "reset" /\ last.ok /\ last.busy
    /\ HasPauseFields(mode) /\ mode.current = MODE_PAUSE
    /\ status = Absent /\ relays = {}

\* C20: start_sequence() deletes Status and runs start_step(0).  When it
\* succeeds Status is the one of step 0, opened at the time of the call,
\* whatever Status was; when it fails (start_step(0) failed) Status is absent.
C20_StartSequenceFromStepZero ==
    [][ last'.op = "start_sequence" =>
            IF last'.ok
            THEN /\ status' # Absent
                 /\ status'.opened_relay = 0
                 /\ status'.opened_at = now
            ELSE status' = Absent ]_vars

\* C20 witness: start_sequence() has failed for want of Settings; the Status
\* that was there is gone, and relay 0 was opened
C20_Witness ==
    /\ last.op = "start_sequence" /\ ~last.ok /\ last.had_status
    /\ settings = Absent /\ status = Absent
    /\ relays = {0}

\* C21: start_step(index) with index < 0 or index > 7 returns failure, closes
\* and opens no relay and writes no Status.
C21_StartStepRejectsBadIndex ==
    [][ (last'.op = "start_step" /\ last'.arg \notin RelayIds) =>
            /\ ~last'.ok
            /\ relays' = relays /\ status' = status ]_vars

\* C21 witness: start_step(8) has failed during step 2, whose relay is still
\* the energized one
C21_Witness ==
    /\ last.op = "start_step" /\ last.arg = NumRelays /\ ~last.ok
    /\ ActiveStep(status) /\ status.opened_relay = 2
    /\ relays = {2}

\* Settings is absent, or has no sequence of eight durations
MalformedSettings(se) ==
    se = Absent \/ ~Has(se, "sequence") \/ Len(se.sequence) # NumRelays

\* C22 (the claim as stated): when Settings is absent or its sequence has not
\* eight entries, start_step(i) fails for every i in 0..7 and leaves Status
\* and every relay as they were.
C22_MalformedSettingsNoEffect ==
    [][ (last'.op = "start_step" /\ last'.arg \in RelayIds /\ MalformedSettings(settings)) =>
            /\ ~last'.ok
            /\ status' = status /\ relays' = relays ]_vars

\* the schedule of the settings document is due at second t of the week: the
\* document has a non-empty schedule and start_at, the day of t is enabled and
\* the HH:MM of t is start_at
ScheduleDue(se, t) ==
    LET day == (t \div SecondsPerDay) % DaysPerWeek
        minute_of_day == (t % SecondsPerDay) \div SecondsPerMinute
        clock == TwoDigits(minute_of_day \div MinutesPerHour) \o <<":">>
                     \o TwoDigits(minute_of_day % MinutesPerHour)
    IN  /\ "schedule" \in DOMAIN se /\ "start_at" \in DOMAIN se
        /\ Len(se.schedule) > 0 /\ Len(se.start_at) > 0
        /\ day + 1 \in DOMAIN se.schedule
        /\ se.schedule[day + 1]
        /\ se.start_at = clock

\* the settings key holds nothing, or a document whose schedule or start_at is
\* missing or empty
NothingScheduled(se) ==
    \/ se = Absent
    \/ /\ se # RawData
       /\ \/ ~Has(se, "schedule") \/ ~Has(se, "start_at")
          \/ se.schedule = <<>> \/ se.start_at = <<>>

C24_OneTriggerPerMinute ==
    /\ [](last.calls <= 1)
    /\ [][ (last'.op = "tick" /\ CurrentMode = MODE_AUTO /\ status = Absent
             /\ ScheduleDue(settings, now)) =>
                /\ last'.calls = last.calls + 1
                /\ last'.ok
                /\ ActiveStep(status') /\ status'.opened_relay = 0
                /\ relays' = {0} ]_vars
    /\ [][ (last'.op = "tick" /\ status # Absent) =>
                (last'.did # "trigger" /\ last'.calls = last.calls) ]_vars

C24_Witness ==
    /\ last.op = "tick" /\ last.did = "advance" /\ last.calls = 1
    /\ CurrentMode = MODE_AUTO
    /\ ScheduleDue(settings, now)
    /\ ActiveStep(status) /\ status.opened_relay = 2

\* C25: a poll tick made while Mode.current is MANUAL or PAUSE, or while the
\* Mode document is absent or invalid, changes neither Mode, Status, Settings
\* nor any relay, even if the deadline of the step has passed or the schedule
\* is due.
C25_TickOutsideAutoChangesNothing ==
    [][ (last'.op = "tick" /\ CurrentMode \notin {MODE_AUTO, MODE_SEMI_AUTO}) =>
            /\ last'.did = "noop"
            /\ UNCHANGED <<mode, status, settings, relays>> ]_vars

C25_Witness ==
    /\ last.op = "tick" /\ last.did = "noop"
    /\ CurrentMode = MODE_MANUAL
    /\ ActiveStep(status) /\ status.opened_relay = 0 /\ relays = {0}
    /\ DeadlinePassed(status, now)
    /\ HasDuration(settings, NumRelays - 1)

\* C26 (the claim as stated): no missing or malformed Mode, Status or Settings
\* document, and no failing store or driver call, ends the poll loop: every
\* tick returns to the sleep and the next iteration.
C26_LoopNeverExits == last.op = "tick" => last.did # "exit"

\* C27 (the claim as stated): in SEMI_AUTO mode the schedule and start_at are
\* not used; no tick of the poll loop calls start_sequence().
C27_SemiAutoNeverTriggers ==
    [][ (last'.op = "tick" /\ CurrentMode = MODE_SEMI_AUTO) => last'.did # "trigger" ]_vars

\* all eight durations of the settings document are positive
AllDurationsPositive(se) ==
    /\ se # Absent /\ Has(se, "sequence")
    /\ Len(se.sequence) = NumRelays
    /\ \A i \in 1..NumRelays : se.sequence[i] > 0

\* C28: with mode AUTO or SEMI_AUTO, eight positive durations, a working store
\* and driver and no API call, a sequence that was started (Status at step 0
\* with its deadline) eventually reaches opened_relay = 7, and on the way the
\* step goes up by one at a time with exactly the relay of the step energized.
C28_SequenceReachesLastStep ==
    /\ ( /\ CurrentMode \in {MODE_AUTO, MODE_SEMI_AUTO}
         /\ AllDurationsPositive(settings)
         /\ ActiveStep(status) /\ status.opened_relay = 0
         /\ Has(status, "should_close_at") )
           ~> (ActiveStep(status) /\ status.opened_relay = LastRelay /\ relays = {LastRelay})
    /\ [][ (ActiveStep(status) /\ status' # status /\ AllDurationsPositive(settings)) =>
                /\ ActiveStep(status')
                /\ status'.opened_relay = status.opened_relay + 1
                /\ relays' = {status'.opened_relay} ]_vars

C28_Witness ==
    /\ last.op = "tick" /\ last.did = "advance" /\ last.calls = 1
    /\ CurrentMode = MODE_SEMI_AUTO
    /\ AllDurationsPositive(settings)
    /\ ActiveStep(status) /\ status.opened_relay = LastRelay /\ relays = {LastRelay}

\* C29 (the claim as stated): manual() never raises, and when it has returned
\* without reporting a failure (it returns MODE_MANUAL) all relays are closed,
\* Status is absent and Mode.current is MANUAL.
C29_ManualReportsFailure ==
    last.op = "manual_call" =>
        /\ last.pc # "raised"
        /\ last.pc = "done" =>
              (relays = {} /\ status = Absent /\ CurrentMode = MODE_MANUAL)

\* C30: a pause() that gets as far as writing the mode returns failure when
\* the mode write fails, when its verification read fails or when closing the
\* relays raises; when the write or the verification fails, no relay and no
\* Status field is changed, and when the write itself fails the Mode document
\* is unchanged too.
C30_PauseFailsOnFault ==
    [][ (last'.op = "pause" /\ ~(last'.from = MODE_PAUSE /\ last'.fault # 1)) =>
            /\ last'.fault \in {2, 3, 4} => ~last'.ok
            /\ last'.fault \in {2, 3} => (relays' = relays /\ status' = status)
            /\ last'.fault = 2 => mode' = mode ]_vars

\* C30 witness: the verification read of pause() has failed during a step:
\* pause() has returned failure, the relay of the step is still energized and
\* Status is still there
C30_Witness ==
    /\ last.op = "pause" /\ last.fault = 3 /\ ~last.ok /\ last.from = MODE_AUTO
    /\ ActiveStep(status) /\ relays = {status.opened_relay}
    /\ mode = [current |-> MODE_PAUSE]

\* s is a time of day written HH:MM: two digits 00..23, a colon, two digits
\* 00..59
IsHHMM(s) ==
    /\ Len(s) = 5
    /\ \/ s[1] \in {"0", "1"} /\ s[2] \in Digits
       \/ s[1] = "2" /\ s[2] \in {"0", "1", "2", "3"}
    /\ s[3] = ":"
    /\ s[4] \in {"0", "1", "2", "3", "4", "5"}
    /\ s[5] \in Digits

\* C31 (the claim as stated): POST /settings stores a document only when
\* start_at is HH:MM, sequence has exactly 8 non-negative integers and
\* schedule has exactly 7 booleans; a rejected request leaves the stored
\* Settings unchanged.
C31_SettingsStoredOnlyIfValid ==
    [][ last'.op = "update_settings" =>
          IF last'.ok
          THEN /\ IsHHMM(settings'.start_at)
               /\ Len(settings'.sequence) = NumRelays
               /\ \A i \in 1 .. NumRelays : settings'.sequence[i] >= 0
               /\ Len(settings'.schedule) = DaysPerWeek
               /\ \A i \in 1 .. DaysPerWeek : settings'.schedule[i] \in BOOLEAN
          ELSE settings' = settings ]_vars

\* C32 (the claim as stated): POST /mode with a valid mode, the store working,
\* writes Mode.current = that mode and answers 200 with the updated current
\* mode.
C32_PostModeAnswersCurrent ==
    [][ (last'.op = "post_mode" /\ last'.req \in VALID_MODES) =>
            /\ CurrentMode' = last'.req
            /\ last'.answer = HTTP_OK
            /\ last'.current = last'.req ]_vars

\* C33 (the claim as stated): between operations, whenever Status exists and
\* Mode.current is not PAUSE, the energized relays are exactly
\* {Status.opened_relay}.
C33_EnergizedIsOpenedRelay ==
    (status # Absent /\ Has(status, "opened_relay") /\ CurrentMode # MODE_PAUSE) =>
        relays = {status.opened_relay}

\* C34: set_mode(m) returns success only if the Mode document read after its
\* own write says current = m; if another writer changed the mode between the
\* write and the re-read, so that the re-read gives another value, set_mode
\* returns failure.
C34_SetModeVerifiesAfterWrite ==
    [][ (last'.op = "set_mode_call" /\ last'.pc = "done") =>
            /\ last'.ok => (InSetMode /\ CurrentMode = last'.req)
            /\ (InSetMode /\ CurrentMode # last'.req) => ~last'.ok ]_vars

\* C34 witness: set_mode(auto) has written, another writer has set the mode
\* to manual before the verification, and set_mode has returned failure
C34_Witness ==
    /\ last.op = "set_mode_call" /\ last.pc = "done" /\ last.raced /\ ~last.ok
    /\ last.req = MODE_AUTO
    /\ mode = [current |-> MODE_MANUAL]

C37_ResetHoldsAgainstTickInProgress ==
    [][ (last.op = "tick_call" /\ last.pc \in {"read_status", "finished"}
           /\ last.during \cap {"reset", "manual"} # {}
           /\ status = Absent /\ relays = {}) =>
            (status' = Absent /\ relays' = {}) ]_vars

\* C37 (amended): the same for an iteration that had read the mode and the
\* Status but had not yet called is_current_step_finished(): that call reads
\* the Status again, finds none, and the iteration ends without a step.
C37_ResetHoldsBeforeFinishedCheck ==
    [][ (last.op = "tick_call" /\ last.pc = "read_status"
           /\ last.during \cap {"reset", "manual"} # {}
           /\ status = Absent /\ relays = {}) =>
            /\ status' = Absent /\ relays' = {}
            /\ last'.pc # last.pc => last'.pc = "done" ]_vars

\* C37 witness: reset() ran after the iteration had read the Status of a step
\* whose deadline has passed; the iteration has ended and nothing is running
C37_Witness ==
    /\ last.op = "tick_call" /\ last.pc = "done" /\ last.did = "noop"
    /\ last.during = {"reset"} /\ last.current_mode = MODE_AUTO
    /\ last.opened_relay = 0
    /\ HasDuration(settings, 1) /\ now >= 1
    /\ CurrentMode = MODE_AUTO
    /\ status = Absent /\ relays = {}

\* C38 (the claim as stated): within one matching schedule minute the poll
\* loop calls start_sequence() at most once, also when reset() is called in
\* that minute or when the first start_sequence() fails and leaves Status
\* absent.
C38_AtMostOneCallPerMinute == last.calls <= 1

\* C38 (amended): the poll loop calls start_sequence() only in an iteration
\* that finds Status absent, and it calls it again in the matching minute
\* only after reset() ran since the previous iteration or after the previous
\* iteration's start_sequence() failed.
C38_CallsAgainOnlyAfterResetOrFailure ==
    [][ (last'.op = "tick" /\ last'.calls > last.calls) =>
            /\ status = Absent
            /\ ScheduleDue(settings, now)
            /\ last.calls > 0 => (last'.after = "reset" \/ ~last.ok) ]_vars

\* C38 witness: the second start_sequence() of the matching minute, made by
\* the iteration that followed a reset()
C38_Witness ==
    /\ last.op = "tick" /\ last.did = "trigger" /\ last.calls = 2 /\ last.ok
    /\ last.after = "reset"
    /\ ScheduleDue(settings, now)
    /\ ActiveStep(status) /\ status.opened_relay = 0 /\ relays = {0}

\* C39: in an automatic mode with no API call, the loop never deletes Status
\* once a sequence has started, so that no later schedule match (the next
\* day, the next week) starts a second sequence: the schedule fires at most
\* once.
C39_ScheduleFiresOnce ==
    /\ [](last.calls <= 1)
    /\ [](last.calls = 1 => (status # Absent /\ Cardinality(relays) = 1))
    /\ [][ status # Absent =>
                (status' # Absent /\ last'.calls = last.calls) ]_vars

\* C39 witness: one week after the sequence started, on a scheduled day at
\* the scheduled minute, an iteration has found the last step held and has
\* started nothing
C39_Witness ==
    /\ last.op = "tick" /\ last.did = "noop" /\ last.calls = 1
    /\ CurrentMode = MODE_AUTO
    /\ now >= DaysPerWeek * SecondsPerDay
    /\ ScheduleDue(settings, now)
    /\ ActiveStep(status) /\ status.opened_relay = LastRelay
    /\ relays = {LastRelay}

====
